---- MODULE Spec2Model ----
(***************************************************************************)
(* Model of the RAG comparison client: the ChatInterface component (input  *)
(* field, bounded query history, history navigation, "newQuery" event) and *)
(* the ResponseComparison component (the session state, the two retrieval  *)
(* calls of every query and what each panel renders).                      *)
(*                                                                         *)
(* JavaScript strings are sequences of one-character strings.  One step of *)
(* the model is one turn of the UI event loop: a DOM event handler run to  *)
(* completion, or the continuation of an async function after an await.    *)
(* React applies the state updates of one turn together, so the state      *)
(* after a step is what the next render shows.                             *)
(***************************************************************************)
EXTENDS Integers, Sequences, FiniteSets

VARIABLES
    chatQuery,       \* ChatInterface: query (the input field)
    queryHistory,    \* ChatInterface: queryHistory, most recent first
    historyIndex,    \* ChatInterface: historyIndex, -1 = none
    query,           \* ResponseComparison: query
    isLoading,       \* ResponseComparison: isLoading
    vectorResponse,  \* ResponseComparison: vectorResponse
    kgResponse,      \* ResponseComparison: kgResponse
    vectorError,     \* ResponseComparison: vectorError
    kgError,         \* ResponseComparison: kgError
    vectorTime,      \* ResponseComparison: vectorTime
    kgTime,          \* ResponseComparison: kgTime
    calls,           \* the async calls that have not run to their end
    clock,           \* performance.now(), in half milliseconds
    signalCount,     \* history variable: "newQuery" events dispatched so far
    lastSignal,      \* history variable: detail.query of the last one
    lastEvent,       \* history variable: the last ChatInterface handler run
    toasts,          \* ToastProvider: toasts
    faults,          \* history variable: the exceptions raised in handleSubmit
    invocations      \* the proxy route: its invocations, in order of arrival

chatVars == <<chatQuery, queryHistory, historyIndex>>
signalVars == <<signalCount, lastSignal>>
sessionVars == <<query, isLoading, vectorResponse, kgResponse, vectorError,
                 kgError, vectorTime, kgTime>>
vars == <<chatQuery, queryHistory, historyIndex, query, isLoading,
          vectorResponse, kgResponse, vectorError, kgError, vectorTime,
          kgTime, calls, clock, signalCount, lastSignal, lastEvent,
          toasts, faults, invocations>>
faultVars == <<toasts, faults>>
pageVars == <<chatQuery, queryHistory, historyIndex, query, isLoading,
              vectorResponse, kgResponse, vectorError, kgError, vectorTime,
              kgTime, calls, clock, signalCount, lastSignal, lastEvent,
              toasts, faults>>

---------------------------------------------------------------------------
\* Bounds of the model.
MaxSubmits == 2      \* "newQuery" events dispatched in one behaviour
MaxClock == 2        \* the clock stops advancing here
MaxRequests == 2     \* requests the proxy route receives in one behaviour

\* Program constants.
HistoryKeep == 19    \* prev.slice(0, 19)
ChipCount == 5       \* queryHistory.slice(0, 5)

---------------------------------------------------------------------------
\* Strings.
Whitespace == {" "}

\* The texts the user types or pastes into the textarea.
InputTexts == { <<>>, <<" ">>, <<" ", "a", " ">>, <<"b">> }

RECURSIVE TrimStart(_)
TrimStart(s) ==
    IF s = <<>> THEN s
    ELSE IF Head(s) \in Whitespace THEN TrimStart(Tail(s)) ELSE s

RECURSIVE TrimEnd(_)
TrimEnd(s) ==
    IF s = <<>> THEN s
    ELSE IF s[Len(s)] \in Whitespace THEN TrimEnd(SubSeq(s, 1, Len(s) - 1))
    ELSE s

\* String.prototype.trim
Trim(s) == TrimEnd(TrimStart(s))

DigitChar == <<"0", "1", "2", "3", "4", "5", "6", "7", "8", "9">>

\* Number.prototype.toString of a non-negative integer
RECURSIVE ToString(_)
ToString(n) ==
    IF n < 10 THEN <<DigitChar[n + 1]>>
    ELSE ToString(n \div 10) \o <<DigitChar[(n % 10) + 1]>>

\* Array.prototype.slice(0, n)
Slice0(s, n) == SubSeq(s, 1, IF Len(s) < n THEN Len(s) ELSE n)

\* s.includes(t)
Includes(s, t) ==
    \E i \in 0..(Len(s) - Len(t)) : SubSeq(s, i + 1, i + Len(t)) = t

---------------------------------------------------------------------------
\* Clocks.
\* The clock counts half milliseconds.  Date.now() is in whole milliseconds.
DateNow == clock \div 2

\* Math.round(performance.now() - startTime): a half rounds up
MathRound(halfMs) == (halfMs + 1) \div 2

---------------------------------------------------------------------------
\* Values of the session.
NullString == <<"null">>     \* null where a string may stand
NullTime == 0 - 1            \* null where a number may stand
NullResponse == [kind |-> "null", query |-> <<>>, hasResults |-> FALSE]

\* A parsed JSON object: the backend echoes the query; hasResults tells
\* whether the object carries the result sequences of the payload type.
JsonObject(q, r) == [kind |-> "object", query |-> q, hasResults |-> r]

Statuses == {200, 500}
ResponseOk(status) == status >= 200 /\ status <= 299

ApiErrorPrefix ==
    <<"A", "P", "I", " ", "e", "r", "r", "o", "r", ":", " ">>
\* `API error: ${response.status}`
ApiError(status) == ApiErrorPrefix \o ToString(status)

\* message of the TypeError a failed fetch rejects with
TransportMessage == <<"F", "a", "i", "l", "e", "d">>
\* message of the SyntaxError response.json() rejects with
SyntaxMessage == <<"U", "n", "e", "x", "p", "e", "c", "t", "e", "d">>

\* JavaScript truthiness of the nullable values of the session
TruthyString(s) == s # NullString /\ s # <<>>
TruthyNumber(n) == n # NullTime /\ n # 0
TruthyObject(o) == o.kind # "null"

---------------------------------------------------------------------------
\* ChatInterface.

\* newQueryItem of handleSubmit
NewQueryItem(text) ==
    [id |-> ToString(DateNow), text |-> Trim(text), timestamp |-> DateNow]

\* Faulty variant of PushHistory: slices one item too many.
PushHistoryOffByOne(prev, item) == <<item>> \o Slice0(prev, HistoryKeep + 1)

\* [newQueryItem, ...prev.slice(0, 19)]
PushHistory(prev, item) == <<item>> \o Slice0(prev, HistoryKeep)

\* Faulty variant of IndexUp: no clamp at the oldest item.
IndexUpNoClamp(index, length) == index + 1

\* navigateHistory("up"): newIndex
IndexUp(index, length) == IF index < length - 1 THEN index + 1 ELSE index

\* Faulty variant of IndexDown: no floor at none (-1).
IndexDownNoFloor(index) == index - 1

\* navigateHistory("down"): newIndex
IndexDown(index) == IF index > 0 THEN index - 1 ELSE 0 - 1

---------------------------------------------------------------------------
\* ResponseComparison.

\* An async call started by handleQuery and suspended at an await: its
\* argument and its startTime.  gen is a history field: the number of the
\* "newQuery" event that started it.
NewCall(side, q) ==
    [side |-> side, query |-> q, startTime |-> clock,
     gen |-> signalCount + 1]

\* Faulty variant of handleQuery: fetchKGResponse is called after
\* `await fetchVectorResponse(newQuery)`, in a later turn.
handleQueryAwaitsVector(newQuery) ==
    /\ query' = newQuery
    /\ isLoading' = TRUE
    /\ vectorResponse' = NullResponse
    /\ kgResponse' = NullResponse
    /\ vectorError' = NullString
    /\ kgError' = NullString
    /\ UNCHANGED <<vectorTime, kgTime>>
    /\ calls' = calls \cup {NewCall("vector", newQuery)}

\* Faulty variant of handleQuery: setVectorError(null) is missing.
handleQueryKeepsError(newQuery) ==
    /\ query' = newQuery
    /\ isLoading' = TRUE
    /\ vectorResponse' = NullResponse
    /\ kgResponse' = NullResponse
    /\ kgError' = NullString
    /\ UNCHANGED <<vectorError, vectorTime, kgTime>>
    /\ calls' = calls \cup {NewCall("vector", newQuery), NewCall("kg", newQuery)}

\* handleQuery: the listener of "newQuery".  fetchVectorResponse and
\* fetchKGResponse run up to their first await inside it.
handleQuery(newQuery) ==
    /\ query' = newQuery
    /\ isLoading' = TRUE
    /\ vectorResponse' = NullResponse
    /\ kgResponse' = NullResponse
    /\ vectorError' = NullString
    /\ kgError' = NullString
    /\ UNCHANGED <<vectorTime, kgTime>>
    /\ calls' = calls \cup {NewCall("vector", newQuery), NewCall("kg", newQuery)}

\* window.dispatchEvent(new CustomEvent("newQuery", {detail: {query}})):
\* the listeners run before dispatchEvent returns.
dispatchEvent(q) ==
    /\ signalCount' = signalCount + 1
    /\ lastSignal' = q
    /\ handleQuery(q)

\* Faulty variant of handleSubmit: the guard tests query, not query.trim().
handleSubmitNoTrim ==
    IF chatQuery = <<>>
    THEN UNCHANGED <<chatVars, sessionVars, calls, signalVars>>
    ELSE /\ signalCount < MaxSubmits
         /\ queryHistory' = PushHistory(queryHistory, NewQueryItem(chatQuery))
         /\ historyIndex' = 0 - 1
         /\ dispatchEvent(Trim(chatQuery))
         /\ chatQuery' = <<>>

\* Faulty variant of handleSubmit: the event carries query, not query.trim().
handleSubmitRawDetail ==
    IF Trim(chatQuery) = <<>>
    THEN UNCHANGED <<chatVars, sessionVars, calls, signalVars>>
    ELSE /\ signalCount < MaxSubmits
         /\ queryHistory' = PushHistory(queryHistory, NewQueryItem(chatQuery))
         /\ historyIndex' = 0 - 1
         /\ dispatchEvent(chatQuery)
         /\ chatQuery' = <<>>

\* handleSubmit of ChatInterface.  It holds no await: it runs in one turn, and
\* its own isLoading is false again when the turn ends.
handleSubmit ==
    IF Trim(chatQuery) = <<>>
    THEN UNCHANGED <<chatVars, sessionVars, calls, signalVars>>
    ELSE /\ signalCount < MaxSubmits
         /\ queryHistory' = PushHistory(queryHistory, NewQueryItem(chatQuery))
         /\ historyIndex' = 0 - 1
         /\ dispatchEvent(Trim(chatQuery))
         /\ chatQuery' = <<>>

\* useToast(): the value of ToastContext
useToast ==
    [toasts |-> toasts, add |-> "function", dismiss |-> "function",
     clear |-> "function"]

\* Where an exception can be raised while the try block of handleSubmit
\* runs: in a listener of "newQuery" ("listener"), or in the construction or
\* the dispatch of the event itself ("emit").
Faults == {"listener", "emit"}

\* handleSubmit when an exception is raised in its try block.  dispatchEvent
\* reports the exception of a listener to the window and returns: the call
\* does not throw, the other listeners run and the try block goes on.  An
\* exception of the try block itself reaches the catch block, which calls
\* toast, the property "toast" of useToast(): not a function when the
\* context value has no such property, and then the call throws in its turn
\* and the promise of handleSubmit is rejected.
handleSubmitThrows(fault) ==
    /\ Trim(chatQuery) # <<>>
    /\ Len(faults) < MaxSubmits
    /\ queryHistory' = PushHistory(queryHistory, NewQueryItem(chatQuery))
    /\ historyIndex' = 0 - 1
    /\ IF fault = "listener"
       THEN /\ signalCount < MaxSubmits
            /\ dispatchEvent(Trim(chatQuery))
            /\ chatQuery' = <<>>
            /\ toasts' = toasts
            /\ faults' = Append(faults, [raised |-> fault, escaped |-> FALSE])
       ELSE /\ UNCHANGED <<chatQuery, sessionVars, calls, signalVars>>
            /\ IF "toast" \in DOMAIN useToast
               THEN /\ toasts' = Append(toasts, "Failed to send query. Please try again.")
                    /\ faults' = Append(faults, [raised |-> fault, escaped |-> FALSE])
               ELSE /\ toasts' = toasts
                    /\ faults' = Append(faults, [raised |-> fault, escaped |-> TRUE])

\* navigateHistory(direction)
navigateHistory(direction) ==
    IF Len(queryHistory) = 0
    THEN UNCHANGED chatVars
    ELSE IF direction = "up"
    THEN LET newIndex == IndexUp(historyIndex, Len(queryHistory)) IN
         /\ historyIndex' = newIndex
         /\ chatQuery' = IF newIndex >= 0 /\ newIndex < Len(queryHistory)
                         THEN queryHistory[newIndex + 1].text
                         ELSE chatQuery
         /\ UNCHANGED queryHistory
    ELSE LET newIndex == IndexDown(historyIndex) IN
         /\ historyIndex' = newIndex
         /\ chatQuery' = IF newIndex >= 0
                         THEN queryHistory[newIndex + 1].text
                         ELSE <<>>
         /\ UNCHANGED queryHistory

Keys == {"Enter", "ArrowUp", "ArrowDown"}

\* handleKeyDown(e)
handleKeyDown(key, shiftKey) ==
    IF key = "Enter" /\ ~shiftKey
    THEN handleSubmit
    ELSE IF key = "ArrowUp" /\ ~shiftKey /\ chatQuery = <<>>
    THEN navigateHistory("up") /\ UNCHANGED <<sessionVars, calls, signalVars>>
    ELSE IF key = "ArrowDown" /\ ~shiftKey
    THEN navigateHistory("down") /\ UNCHANGED <<sessionVars, calls, signalVars>>
    ELSE UNCHANGED <<chatVars, sessionVars, calls, signalVars>>

---------------------------------------------------------------------------
\* The user's gestures.

\* Faulty variant of OnChange: typing also calls setHistoryIndex(-1).
OnChangeResetsCursor(text) ==
    /\ chatQuery' = text
    /\ historyIndex' = 0 - 1
    /\ lastEvent' = "onChange"
    /\ UNCHANGED <<queryHistory, sessionVars, calls, clock, signalVars>>
    /\ UNCHANGED <<faultVars, invocations>>

\* Textarea onChange
OnChange(text) ==
    /\ chatQuery' = text
    /\ lastEvent' = "onChange"
    /\ UNCHANGED <<queryHistory, historyIndex, sessionVars, calls, clock, signalVars>>
    /\ UNCHANGED <<faultVars, invocations>>

\* form onSubmit through the submit button, disabled while the trimmed
\* field is empty
OnSubmit ==
    /\ Trim(chatQuery) # <<>>
    /\ handleSubmit
    /\ lastEvent' = "onSubmit"
    /\ UNCHANGED <<clock, faultVars, invocations>>

\* form onSubmit, with an exception raised in the try block of handleSubmit
OnSubmitFault(fault) ==
    /\ handleSubmitThrows(fault)
    /\ lastEvent' = "onSubmit"
    /\ UNCHANGED <<clock, invocations>>

\* Textarea onKeyDown
OnKeyDown(key, shiftKey) ==
    /\ handleKeyDown(key, shiftKey)
    /\ lastEvent' = IF shiftKey THEN "Shift" ELSE key
    /\ UNCHANGED <<clock, faultVars, invocations>>

\* "Previous query" button, disabled while the history is empty
ClickPrevious ==
    /\ Len(queryHistory) # 0
    /\ navigateHistory("up")
    /\ lastEvent' = "previous"
    /\ UNCHANGED <<sessionVars, calls, clock, signalVars, faultVars, invocations>>

\* "Next query" button, disabled while historyIndex <= 0
ClickNext ==
    /\ historyIndex > 0
    /\ navigateHistory("down")
    /\ lastEvent' = "next"
    /\ UNCHANGED <<sessionVars, calls, clock, signalVars, faultVars, invocations>>

\* a chip of queryHistory.slice(0, 5)
ClickChip(i) ==
    /\ i \in 1..Len(Slice0(queryHistory, ChipCount))
    /\ chatQuery' = queryHistory[i].text
    /\ lastEvent' = "chip"
    /\ UNCHANGED <<queryHistory, historyIndex, sessionVars, calls, clock, signalVars>>
    /\ UNCHANGED <<faultVars, invocations>>

\* time passes
Tick ==
    /\ clock < MaxClock
    /\ clock' = clock + 1
    /\ lastEvent' = "tick"
    /\ UNCHANGED <<chatVars, sessionVars, calls, signalVars, faultVars, invocations>>

---------------------------------------------------------------------------
\* The awaits of fetchVectorResponse and fetchKGResponse.

\* How the two awaits of a call can settle.  `await fetch(...)` rejects
\* (transport failure) or yields a Response with a status; then
\* `await response.json()` rejects (the body is not JSON) or yields the
\* parsed value.  The turn that follows an ok Response writes nothing, so it
\* is taken together with the turn that follows response.json().
TransportFailure ==
    [fetch |-> "rejected", status |-> 0, json |-> "none", data |-> NullResponse]
HttpFailure(status) ==
    [fetch |-> "fulfilled", status |-> status, json |-> "none",
     data |-> NullResponse]
ParseFailure(status) ==
    [fetch |-> "fulfilled", status |-> status, json |-> "rejected",
     data |-> NullResponse]
Parsed(status, data) ==
    [fetch |-> "fulfilled", status |-> status, json |-> "fulfilled",
     data |-> data]

Settlements(c) ==
    {TransportFailure}
      \cup {HttpFailure(s) : s \in {t \in Statuses : ~ResponseOk(t)}}
      \cup {ParseFailure(s) : s \in {t \in Statuses : ResponseOk(t)}}
      \cup {Parsed(s, JsonObject(c.query, r)) :
                s \in {t \in Statuses : ResponseOk(t)}, r \in BOOLEAN}

\* Faulty variant of ThrownMessage: the Error of a non-2xx Response does not
\* name the status.
ThrownMessageNoStatus(r) ==
    IF r.fetch = "rejected" THEN TransportMessage
    ELSE IF ~ResponseOk(r.status) THEN ApiErrorPrefix
    ELSE IF r.json = "rejected" THEN SyntaxMessage
    ELSE NullString

\* The message of the Error the try block ends with, NullString if none:
\* what fetch or response.json() rejected with, or
\* new Error(`API error: ${response.status}`).
ThrownMessage(r) ==
    IF r.fetch = "rejected" THEN TransportMessage
    ELSE IF ~ResponseOk(r.status) THEN ApiError(r.status)
    ELSE IF r.json = "rejected" THEN SyntaxMessage
    ELSE NullString

\* Faulty variant of fetchVectorResponse: the catch block also calls
\* setKGResponse(null).
fetchVectorResponseClearsOther(c, r) ==
    /\ calls' = calls \ {c}
    /\ IF ThrownMessage(r) # NullString
       THEN /\ vectorError' = ThrownMessage(r)
            /\ kgResponse' = NullResponse
            /\ UNCHANGED <<vectorResponse, vectorTime>>
       ELSE /\ vectorResponse' = r.data
            /\ vectorTime' = MathRound(clock - c.startTime)
            /\ UNCHANGED <<vectorError, kgResponse>>
    /\ UNCHANGED <<query, isLoading, kgError, kgTime>>

\* Faulty variant of fetchVectorResponse: it ends with
\* finally { setIsLoading(false) } as fetchKGResponse does.
fetchVectorResponseFinally(c, r) ==
    /\ calls' = calls \ {c}
    /\ IF ThrownMessage(r) # NullString
       THEN /\ vectorError' = ThrownMessage(r)
            /\ UNCHANGED <<vectorResponse, vectorTime>>
       ELSE /\ vectorResponse' = r.data
            /\ vectorTime' = MathRound(clock - c.startTime)
            /\ UNCHANGED vectorError
    /\ isLoading' = FALSE
    /\ UNCHANGED <<query, kgResponse, kgError, kgTime>>

\* Faulty variant of fetchVectorResponse: the catch block calls
\* fetchVectorResponse(query) again.
fetchVectorResponseRetry(c, r) ==
    /\ IF ThrownMessage(r) # NullString
       THEN /\ vectorError' = ThrownMessage(r)
            /\ calls' = (calls \ {c}) \cup {[c EXCEPT !.startTime = clock]}
            /\ UNCHANGED <<vectorResponse, vectorTime>>
       ELSE /\ vectorResponse' = r.data
            /\ vectorTime' = MathRound(clock - c.startTime)
            /\ calls' = calls \ {c}
            /\ UNCHANGED vectorError
    /\ UNCHANGED <<query, isLoading, kgResponse, kgError, kgTime>>

\* fetchVectorResponse from its first await to its end
fetchVectorResponse(c, r) ==
    /\ calls' = calls \ {c}
    /\ IF ThrownMessage(r) # NullString
       THEN /\ vectorError' = ThrownMessage(r)
            /\ UNCHANGED <<vectorResponse, vectorTime>>
       ELSE /\ vectorResponse' = r.data
            /\ vectorTime' = MathRound(clock - c.startTime)
            /\ UNCHANGED vectorError
    /\ UNCHANGED <<query, isLoading, kgResponse, kgError, kgTime>>

\* Faulty variant of fetchKGResponse: setIsLoading(false) stands at the end
\* of the try block, not in a finally block.
fetchKGResponseNoFinally(c, r) ==
    /\ calls' = calls \ {c}
    /\ IF ThrownMessage(r) # NullString
       THEN /\ kgError' = ThrownMessage(r)
            /\ UNCHANGED <<kgResponse, kgTime, isLoading>>
       ELSE /\ kgResponse' = r.data
            /\ kgTime' = MathRound(clock - c.startTime)
            /\ isLoading' = FALSE
            /\ UNCHANGED kgError
    /\ UNCHANGED <<query, vectorResponse, vectorError, vectorTime>>

\* Faulty variant of fetchKGResponse: the catch block reports to both panels.
fetchKGResponseSharedError(c, r) ==
    /\ calls' = calls \ {c}
    /\ IF ThrownMessage(r) # NullString
       THEN /\ kgError' = ThrownMessage(r)
            /\ vectorError' = ThrownMessage(r)
            /\ UNCHANGED <<kgResponse, kgTime>>
       ELSE /\ kgResponse' = r.data
            /\ kgTime' = MathRound(clock - c.startTime)
            /\ UNCHANGED <<kgError, vectorError>>
    /\ isLoading' = FALSE
    /\ UNCHANGED <<query, vectorResponse, vectorTime>>

\* fetchKGResponse from its first await to its end
fetchKGResponse(c, r) ==
    /\ calls' = calls \ {c}
    /\ IF ThrownMessage(r) # NullString
       THEN /\ kgError' = ThrownMessage(r)
            /\ UNCHANGED <<kgResponse, kgTime>>
       ELSE /\ kgResponse' = r.data
            /\ kgTime' = MathRound(clock - c.startTime)
            /\ UNCHANGED kgError
    /\ isLoading' = FALSE
    /\ UNCHANGED <<query, vectorResponse, vectorError, vectorTime>>

\* A vector call settles
VectorSettles(c) ==
    /\ c.side = "vector"
    /\ \E r \in Settlements(c) : fetchVectorResponse(c, r)
    /\ UNCHANGED <<chatVars, clock, signalVars, lastEvent, faultVars, invocations>>

\* A graph call settles
KGSettles(c) ==
    /\ c.side = "kg"
    /\ \E r \in Settlements(c) : fetchKGResponse(c, r)
    /\ UNCHANGED <<chatVars, clock, signalVars, lastEvent, faultVars, invocations>>

---------------------------------------------------------------------------
\* What ResponseComparison renders.

\* the CardContent of the vector panel
VectorPanel ==
    IF isLoading /\ ~TruthyObject(vectorResponse) THEN "skeleton"
    ELSE IF TruthyString(vectorError) THEN "error"
    ELSE IF TruthyObject(vectorResponse) THEN "tabs"
    ELSE "waiting"

\* the CardContent of the graph panel
KGPanel ==
    IF isLoading /\ ~TruthyObject(kgResponse) THEN "skeleton"
    ELSE IF TruthyString(kgError) THEN "error"
    ELSE IF TruthyObject(kgResponse) THEN "tabs"
    ELSE "waiting"

\* the "Processing query..." indicator
LoadingIndicator == TruthyString(query) /\ isLoading

\* formatTime(ms)
formatTime(ms) ==
    IF TruthyNumber(ms) THEN ToString(ms) \o <<"m", "s">> ELSE <<"N", "/", "A">>

\* {vectorTime && <Badge>...{formatTime(vectorTime)}</Badge>}: nothing for
\* null, the number itself for 0, the badge otherwise
VectorBadge ==
    IF vectorTime = NullTime THEN <<>>
    ELSE IF ~TruthyNumber(vectorTime) THEN ToString(vectorTime)
    ELSE formatTime(vectorTime)

\* {kgTime && <Badge>...{formatTime(kgTime)}</Badge>}
KGBadge ==
    IF kgTime = NullTime THEN <<>>
    ELSE IF ~TruthyNumber(kgTime) THEN ToString(kgTime)
    ELSE formatTime(kgTime)

---------------------------------------------------------------------------
\* The proxy route GET /api/query-vector-only.

\* searchParams.get("query"): null when the parameter is missing
RouteQueries ==
    {NullString} \cup InputTexts \cup {Trim(text) : text \in InputTexts}

\* Bodies the backend sends: {}, {"summary":"s"}, null, and an HTML page.
EmptyObjectText == <<"{", "}">>
SummaryText ==
    <<"{", "\"", "s", "u", "m", "m", "a", "r", "y", "\"", ":", "\"", "s", "\"", "}">>
NullText == <<"n", "u", "l", "l">>
HtmlText == <<"<", "h", "t", "m", "l", ">">>
BackendTexts == {EmptyObjectText, SummaryText, NullText, HtmlText}

\* JSON.parse(text) on the texts of BackendTexts: whether it returns, and
\* the value it returns
JSONParse(text) ==
    IF text = EmptyObjectText
    THEN [ok |-> TRUE, value |-> [kind |-> "object", summary |-> NullString]]
    ELSE IF text = SummaryText
    THEN [ok |-> TRUE, value |-> [kind |-> "object", summary |-> <<"s">>]]
    ELSE IF text = NullText
    THEN [ok |-> TRUE, value |-> [kind |-> "null", summary |-> NullString]]
    ELSE [ok |-> FALSE, value |-> [kind |-> "undefined", summary |-> NullString]]

\* NextResponse.json(body, {status, headers})
NextResponseJson(body, status, cacheControl) ==
    [status |-> status, body |-> body, cacheControl |-> cacheControl]

\* the response of line 19
BadRequest ==
    NextResponseJson([error |-> "Query parameter is required"], 400, "none")

\* the response of the inner catch block
ParseErrorResponse ==
    NextResponseJson([error |-> "Failed to parse JSON response from backend"],
                     500, "none")

\* the response of the outer catch block
FetchErrorResponse(details) ==
    NextResponseJson([error |-> "Failed to fetch from vector-only endpoint",
                      details |-> details], 500, "none")

\* `Backend API responded with status: ${response.status}`
BackendStatusMessage(status) ==
    <<"Backend API responded with status: ">> \o ToString(status)

\* What an invocation has seen of the backend so far (history fields).
NoReply == [fetch |-> "none", status |-> 0, text |-> "none", body |-> <<>>]

\* GET(request) up to its first await
GET(q) ==
    /\ Len(invocations) < MaxRequests
    /\ invocations' = Append(invocations,
          IF ~TruthyString(q)
          THEN [query |-> q, pc |-> "done", backendCalls |-> 0,
                backend |-> NoReply, responses |-> <<BadRequest>>]
          ELSE [query |-> q, pc |-> "fetch", backendCalls |-> 1,
                backend |-> NoReply, responses |-> <<>>])
    /\ UNCHANGED pageVars

\* How `await fetch(...)` can settle
FetchSettlements ==
    {[fetch |-> "rejected", status |-> 0]}
       \cup {[fetch |-> "fulfilled", status |-> st] : st \in Statuses}

\* GET from `await fetch(...)` to the next await or to its return
GETAfterFetch(i, r) ==
    /\ invocations[i].pc = "fetch"
    /\ invocations' = [invocations EXCEPT ![i] =
          IF r.fetch = "rejected"
          THEN [@ EXCEPT !.pc = "done",
                         !.backend = [NoReply EXCEPT !.fetch = "rejected"],
                         !.responses = Append(@, FetchErrorResponse(TransportMessage))]
          ELSE IF ~ResponseOk(r.status)
          THEN [@ EXCEPT !.pc = "done",
                         !.backend = [NoReply EXCEPT !.fetch = "fulfilled",
                                                     !.status = r.status],
                         !.responses = Append(@,
                             FetchErrorResponse(BackendStatusMessage(r.status)))]
          ELSE [@ EXCEPT !.pc = "text",
                         !.backend = [NoReply EXCEPT !.fetch = "fulfilled",
                                                     !.status = r.status]]]
    /\ UNCHANGED pageVars

\* How `await response.text()` can settle
TextSettlements ==
    {[text |-> "rejected", body |-> <<>>]}
       \cup {[text |-> "fulfilled", body |-> t] : t \in BackendTexts}

\* GET from `await response.text()` to its return.  In the inner try block
\* JSON.parse(text) throws on a text that is not JSON, and data.summary
\* throws on the value null; both end in the inner catch block.
GETAfterText(i, t) ==
    /\ invocations[i].pc = "text"
    /\ invocations' = [invocations EXCEPT ![i] =
          [@ EXCEPT !.pc = "done",
                    !.backend = [@ EXCEPT !.text = t.text, !.body = t.body],
                    !.responses = Append(@,
                       IF t.text = "rejected"
                       THEN FetchErrorResponse(TransportMessage)
                       ELSE IF ~JSONParse(t.body).ok
                       THEN ParseErrorResponse
                       ELSE IF JSONParse(t.body).value.kind = "null"
                       THEN ParseErrorResponse
                       ELSE NextResponseJson(JSONParse(t.body).value, 200,
                                             "no-store, max-age=0"))]]
    /\ UNCHANGED pageVars

\* The route: requests arrive, the awaits of its invocations settle.
RouteNext ==
    \/ \E q \in RouteQueries : GET(q)
    \/ \E i \in 1..Len(invocations) :
          \E r \in FetchSettlements : GETAfterFetch(i, r)
    \/ \E i \in 1..Len(invocations) :
          \E t \in TextSettlements : GETAfterText(i, t)

---------------------------------------------------------------------------
\* The state after both components have mounted, half a millisecond after
\* the time origin.
Init ==
    /\ chatQuery = <<>>
    /\ queryHistory = <<>>
    /\ historyIndex = 0 - 1
    /\ query = <<>>
    /\ isLoading = FALSE
    /\ vectorResponse = NullResponse
    /\ kgResponse = NullResponse
    /\ vectorError = NullString
    /\ kgError = NullString
    /\ vectorTime = NullTime
    /\ kgTime = NullTime
    /\ calls = {}
    /\ clock = 1
    /\ signalCount = 0
    /\ lastSignal = <<>>
    /\ lastEvent = "mount"
    /\ toasts = <<>>
    /\ faults = <<>>
    /\ invocations = <<>>

\* queryHistory after HistoryKeep submissions made in the first
\* millisecond, texts alternating, most recent first.
FilledHistory ==
    [i \in 1..HistoryKeep |->
        [id |-> ToString(0),
         text |-> IF i % 2 = 1 THEN <<"a">> ELSE <<"b">>,
         timestamp |-> 0]]

\* A state the page is in after HistoryKeep submissions whose calls were all
\* answered with status 500: the history is one short of its cap.  The
\* history variables count from here.
InitFilled ==
    /\ chatQuery = <<>>
    /\ queryHistory = FilledHistory
    /\ historyIndex = 0 - 1
    /\ query = FilledHistory[1].text
    /\ isLoading = FALSE
    /\ vectorResponse = NullResponse
    /\ kgResponse = NullResponse
    /\ vectorError = ApiError(500)
    /\ kgError = ApiError(500)
    /\ vectorTime = NullTime
    /\ kgTime = NullTime
    /\ calls = {}
    /\ clock = 1
    /\ signalCount = 0
    /\ lastSignal = FilledHistory[1].text
    /\ lastEvent = "mount"
    /\ toasts = <<>>
    /\ faults = <<>>
    /\ invocations = <<>>

\* The two components share no state: ChatInterface reads and writes only
\* its own three fields, ResponseComparison only its own eight, and the
\* "newQuery" event is the one thing that passes between them.  Each is
\* explored with the steps of the other that it cannot observe left out.

\* The user at the ChatInterface.  A submission runs the listener of
\* ResponseComparison too; the calls it starts stay outstanding.
ChatNext ==
    \/ \E text \in InputTexts : OnChange(text)
    \/ OnSubmit
    \/ \E key \in Keys, shiftKey \in BOOLEAN : OnKeyDown(key, shiftKey)
    \/ ClickPrevious
    \/ ClickNext
    \/ \E i \in 1..ChipCount : ClickChip(i)
    \/ Tick

ChatSpec == Init /\ [][ChatNext]_vars

\* The same from a history one short of its cap.
FilledSpec == InitFilled /\ [][ChatNext]_vars

\* The user at the ChatInterface when the try block of handleSubmit may throw.
FaultNext ==
    \/ \E text \in InputTexts : OnChange(text)
    \/ OnSubmit
    \/ \E fault \in Faults : OnSubmitFault(fault)
    \/ \E key \in Keys, shiftKey \in BOOLEAN : OnKeyDown(key, shiftKey)
    \/ ClickPrevious
    \/ ClickNext
    \/ \E i \in 1..ChipCount : ClickChip(i)
    \/ Tick

FaultSpec == Init /\ [][FaultNext]_vars

RouteSpec == Init /\ [][RouteNext]_vars

\* The texts ChatInterface dispatches: trimmed and not empty.
Queries == {Trim(text) : text \in InputTexts} \ {<<>>}

\* A "newQuery" event reaches the listener of ResponseComparison.
NewQuery(q) ==
    /\ signalCount < MaxSubmits
    /\ dispatchEvent(q)
    /\ UNCHANGED <<chatVars, clock, lastEvent, faultVars, invocations>>

\* ResponseComparison: the events it receives and the calls it started.
SessionNext ==
    \/ \E q \in Queries : NewQuery(q)
    \/ Tick
    \/ \E c \in calls : VectorSettles(c)
    \/ \E c \in calls : KGSettles(c)

SessionSpec == Init /\ [][SessionNext]_vars

\* ResponseComparison with the clock standing still: the events it
\* receives and the calls it started, every elapsed time being 0.
LiveNext ==
    \/ \E q \in Queries : NewQuery(q)
    \/ \E c \in calls : VectorSettles(c)
    \/ \E c \in calls : KGSettles(c)

\* Every call that was started settles in the end: the promise of a fetch
\* that is outstanding is settled by the browser, which no step of the page
\* can prevent.  The elapsed times play no part in what becomes of the
\* calls and of the loading flag, so the clock is left out.
LiveSpec ==
    /\ Init
    /\ [][LiveNext]_vars
    /\ WF_vars(\E c \in calls : VectorSettles(c))
    /\ WF_vars(\E c \in calls : KGSettles(c))

---------------------------------------------------------------------------
\* The RetrievalOutcome a side's three fields stand for, read the way the
\* panels read them: an error message before a payload, Pending without
\* either.
Outcome(response, error) ==
    IF TruthyString(error)
    THEN [kind |-> "Failure", payload |-> NullResponse, message |-> error]
    ELSE IF TruthyObject(response)
    THEN [kind |-> "Success", payload |-> response, message |-> NullString]
    ELSE [kind |-> "Pending", payload |-> NullResponse, message |-> NullString]

\* The RetrievalOutcome a settlement of a call stands for: Failure with the
\* message of what was thrown, Success with the parsed payload.
OutcomeOf(r) ==
    IF r.fetch = "rejected"
    THEN [kind |-> "Failure", payload |-> NullResponse,
          message |-> TransportMessage]
    ELSE IF ~ResponseOk(r.status)
    THEN [kind |-> "Failure", payload |-> NullResponse,
          message |-> ApiError(r.status)]
    ELSE IF r.json = "rejected"
    THEN [kind |-> "Failure", payload |-> NullResponse,
          message |-> SyntaxMessage]
    ELSE [kind |-> "Success", payload |-> r.data, message |-> NullString]

VectorOutcome == Outcome(vectorResponse, vectorError)
KGOutcome == Outcome(kgResponse, kgError)

\* What a panel is to show for an outcome.
PanelFor(outcome) ==
    IF outcome.kind = "Pending" THEN "skeleton"
    ELSE IF outcome.kind = "Failure" THEN "error"
    ELSE "tabs"

Min(a, b) == IF a < b THEN a ELSE b
Max(a, b) == IF a > b THEN a ELSE b

\* This step ran handleSubmit (the submit button or Enter without Shift).
SubmitStep == lastEvent' \in {"onSubmit", "Enter"}

\* This step ran navigateHistory("up") (the button, or ArrowUp on an empty
\* field).
OlderStep ==
    \/ lastEvent' = "previous"
    \/ lastEvent' = "ArrowUp" /\ chatQuery = <<>>

\* This step ran navigateHistory("down").
NewerStep == lastEvent' \in {"next", "ArrowDown"}

\* This step is the listener of a "newQuery" event.
DispatchStep == signalCount' # signalCount

---------------------------------------------------------------------------
\* C1.  Stale-response guard: once a different query is the current one, the
\* settling of a call of an earlier query changes nothing in the session.
C1_StaleCallIsInert ==
    [][\A c \in calls :
          (c.query # query /\ c \notin calls') => UNCHANGED sessionVars]_vars

\* C2.  Every "newQuery" event with text q replaces the session in one step:
\* after it the current query is q and both sides are Pending, with no
\* payload and no error message of the previous query left.
C2_AtomicReplace ==
    [][DispatchStep =>
          /\ query' = lastSignal'
          /\ VectorOutcome'.kind = "Pending"
          /\ KGOutcome'.kind = "Pending"
          /\ vectorResponse' = NullResponse /\ vectorError' = NullString
          /\ kgResponse' = NullResponse /\ kgError' = NullString]_vars

\* A second query has just replaced a session whose two calls had settled.
C2_Witness ==
    /\ signalCount = 2
    /\ \A c \in calls : c.gen = 2
    /\ Cardinality(calls) = 2
    /\ query = lastSignal
    /\ VectorOutcome.kind = "Pending" /\ KGOutcome.kind = "Pending"

\* C3.  With a current query, the loading flag is true exactly while at
\* least one side is Pending.
C3_LoadingIffPending ==
    TruthyString(query) =>
        (isLoading <=>
            (VectorOutcome.kind = "Pending" \/ KGOutcome.kind = "Pending"))

\* C4.  Between two submissions a side's outcome changes at most once, from
\* Pending to Success or Failure: an outcome that is not Pending stays as it
\* is until the next "newQuery" event.
C4_OutcomeSettlesOnce ==
    [][~DispatchStep =>
          /\ VectorOutcome.kind # "Pending" => VectorOutcome' = VectorOutcome
          /\ KGOutcome.kind # "Pending" => KGOutcome' = KGOutcome]_vars

\* C5.  A submission while the trimmed field is empty changes neither the
\* history, the cursor nor the field, dispatches no event, leaves the session
\* as it is and starts no call.
C5_EmptySubmitIsNoOp ==
    [][(SubmitStep /\ Trim(chatQuery) = <<>>) =>
          UNCHANGED <<chatVars, signalVars, sessionVars, calls>>]_vars

\* Enter was pressed on a field holding only whitespace, after a query had
\* been submitted.
C5_Witness ==
    /\ lastEvent = "Enter"
    /\ chatQuery = <<" ">>
    /\ Len(queryHistory) = 1
    /\ signalCount = 1

\* C6.  The history never holds more than 20 items and is ordered most
\* recent first; a submission of a text with a non-empty trim puts an item
\* with the trimmed text at the front, keeps the other items in their order
\* and drops the oldest one when there were 20 already.
C6_HistoryBounded ==
    /\ [](/\ Len(queryHistory) <= HistoryKeep + 1
          /\ \A i \in 1..Len(queryHistory) : \A j \in i..Len(queryHistory) :
                queryHistory[i].timestamp >= queryHistory[j].timestamp)
    /\ [][(SubmitStep /\ Trim(chatQuery) # <<>>) =>
            /\ queryHistory'[1].text = Trim(chatQuery)
            /\ Len(queryHistory') = Min(Len(queryHistory) + 1, HistoryKeep + 1)
            /\ Tail(queryHistory') =
                 SubSeq(queryHistory, 1, Len(queryHistory') - 1)]_vars

\* A submission was made on a full history, which is still full.
C6_Witness ==
    /\ lastEvent = "onSubmit"
    /\ signalCount = 2
    /\ Len(queryHistory) = HistoryKeep + 1
    /\ queryHistory[1].text = <<"a">>
    /\ queryHistory[2].text = <<"b">>
    /\ queryHistory[1].timestamp > queryHistory[2].timestamp

\* C7.  A submission of a text with a non-empty trim dispatches exactly one
\* "newQuery" event carrying the trimmed text, and leaves the field empty and
\* the cursor at none (-1).
C7_SubmitEmitsOnce ==
    [][(SubmitStep /\ Trim(chatQuery) # <<>>) =>
          /\ signalCount' = signalCount + 1
          /\ lastSignal' = Trim(chatQuery)
          /\ chatQuery' = <<>>
          /\ historyIndex' = 0 - 1]_vars

\* A text recalled from the history was submitted again with Enter.
C7_Witness ==
    /\ lastEvent = "Enter"
    /\ signalCount = 2
    /\ lastSignal = <<"a">>
    /\ chatQuery = <<>>
    /\ historyIndex = 0 - 1
    /\ Len(queryHistory) = 2
    /\ queryHistory[1].text = queryHistory[2].text

\* C8.  On a history of n > 0 items with the cursor at c, a step "older"
\* sets the cursor to min(c + 1, n - 1) and the field to that item's text; a
\* step "newer" sets the cursor to max(c - 1, -1) and the field to that
\* item's text, or to the empty text when the cursor becomes -1.
C8_Navigation ==
    [][Len(queryHistory) > 0 =>
          /\ OlderStep =>
                /\ historyIndex' = Min(historyIndex + 1, Len(queryHistory) - 1)
                /\ chatQuery' = queryHistory[historyIndex' + 1].text
          /\ NewerStep =>
                /\ historyIndex' = Max(historyIndex - 1, 0 - 1)
                /\ chatQuery' = IF historyIndex' = 0 - 1 THEN <<>>
                                ELSE queryHistory[historyIndex' + 1].text]_vars

\* After three steps "older" (to the third item) a step "newer" has shown the
\* second item.
C8_Witness ==
    /\ lastEvent = "next"
    /\ historyIndex = 1
    /\ Len(queryHistory) >= 3
    /\ chatQuery = queryHistory[2].text
    /\ queryHistory[2].text # queryHistory[1].text

\* C9.  With a current query, each panel shows what its own side's outcome
\* asks for: the skeleton for Pending, the error banner for Failure, the
\* tabs for Success.
C9_PanelFollowsOwnOutcome ==
    TruthyString(query) =>
        /\ VectorPanel = PanelFor(VectorOutcome)
        /\ KGPanel = PanelFor(KGOutcome)

\* C10.  A failure of one side's call leaves the other side alone: a call
\* that settles writes to its own side only and leaves the other side's
\* fields and outstanding calls as they are; answered with a non-2xx status
\* it puts its side in Failure with a message holding that status; and once
\* no call is outstanding each side is in Success or Failure and each panel
\* shows just that.  There is no session-wide error field to write to.
C10_SidesIndependent ==
    /\ [][\A c \in calls \ calls' :
            /\ c.side = "kg" =>
                  /\ UNCHANGED <<vectorResponse, vectorError, vectorTime>>
                  /\ {d \in calls' : d.side = "vector"}
                        = {d \in calls : d.side = "vector"}
                  /\ KGOutcome'.kind # "Pending"
                  /\ \A s \in {t \in Statuses : ~ResponseOk(t)} :
                        fetchKGResponse(c, HttpFailure(s)) =>
                            /\ KGOutcome'.kind = "Failure"
                            /\ Includes(KGOutcome'.message, ToString(s))
            /\ c.side = "vector" =>
                  /\ UNCHANGED <<kgResponse, kgError, kgTime>>
                  /\ {d \in calls' : d.side = "kg"}
                        = {d \in calls : d.side = "kg"}
                  /\ VectorOutcome'.kind # "Pending"
                  /\ \A s \in {t \in Statuses : ~ResponseOk(t)} :
                        fetchVectorResponse(c, HttpFailure(s)) =>
                            /\ VectorOutcome'.kind = "Failure"
                            /\ Includes(VectorOutcome'.message, ToString(s))]_vars
    /\ []((signalCount > 0 /\ calls = {}) =>
            /\ VectorOutcome.kind # "Pending"
            /\ KGOutcome.kind # "Pending"
            /\ VectorPanel = PanelFor(VectorOutcome)
            /\ KGPanel = PanelFor(KGOutcome))

\* The graph call was answered with status 500 and the vector call with a
\* payload: the graph panel shows the error, the vector panel the tabs.
C10_Witness ==
    /\ signalCount = 1
    /\ calls = {}
    /\ kgError = ApiError(500)
    /\ kgResponse = NullResponse
    /\ vectorError = NullString
    /\ vectorResponse = JsonObject(query, TRUE)
    /\ VectorPanel = "tabs"
    /\ KGPanel = "error"

\* C11.  A side's stored outcome is never a mix: no side holds a payload
\* together with an error message, and no side holds an elapsed time together
\* with an error message.
C11_NeverMixed ==
    /\ ~(TruthyObject(vectorResponse) /\ TruthyString(vectorError))
    /\ ~(vectorTime # NullTime /\ TruthyString(vectorError))
    /\ ~(TruthyObject(kgResponse) /\ TruthyString(kgError))
    /\ ~(kgTime # NullTime /\ TruthyString(kgError))

\* C12.  When the call of the current query succeeds on a side, the time
\* recorded for the side is that call's elapsed time; and while a side is
\* Pending or in Failure for the current query, nothing is shown in the
\* place of its latency badge.
C12_LatencyOfCurrentCall ==
    /\ [][\A c \in calls \ calls' :
            /\ (c.side = "vector" /\ c.gen = signalCount
                    /\ VectorOutcome'.kind = "Success") =>
                  vectorTime' = MathRound(clock - c.startTime)
            /\ (c.side = "kg" /\ c.gen = signalCount
                    /\ KGOutcome'.kind = "Success") =>
                  kgTime' = MathRound(clock - c.startTime)]_vars
    /\ [](TruthyString(query) =>
            /\ VectorOutcome.kind # "Success" => VectorBadge = <<>>
            /\ KGOutcome.kind # "Success" => KGBadge = <<>>)

\* C13.  A call answered with a non-2xx status S puts its side in Failure
\* with the message "API error: S", character for character; a call whose
\* fetch is rejected puts its side in Failure with the message of the
\* rejection; neither writes the side's payload.
C13_FailureMessages ==
    [][\A c \in calls \ calls' :
          /\ \A s \in {t \in Statuses : ~ResponseOk(t)} :
                /\ (c.side = "vector" /\ fetchVectorResponse(c, HttpFailure(s))) =>
                      /\ VectorOutcome'.kind = "Failure"
                      /\ VectorOutcome'.message =
                            <<"A", "P", "I", " ", "e", "r", "r", "o", "r", ":", " ">>
                               \o ToString(s)
                      /\ UNCHANGED vectorResponse
                /\ (c.side = "kg" /\ fetchKGResponse(c, HttpFailure(s))) =>
                      /\ KGOutcome'.kind = "Failure"
                      /\ KGOutcome'.message =
                            <<"A", "P", "I", " ", "e", "r", "r", "o", "r", ":", " ">>
                               \o ToString(s)
                      /\ UNCHANGED kgResponse
          /\ (c.side = "vector" /\ fetchVectorResponse(c, TransportFailure)) =>
                /\ VectorOutcome'.kind = "Failure"
                /\ VectorOutcome'.message = TransportMessage
                /\ UNCHANGED vectorResponse
          /\ (c.side = "kg" /\ fetchKGResponse(c, TransportFailure)) =>
                /\ KGOutcome'.kind = "Failure"
                /\ KGOutcome'.message = TransportMessage
                /\ UNCHANGED kgResponse]_vars

\* The vector call was answered with status 500 and the fetch of the graph
\* call was rejected: each side holds its message and no payload.
C13_Witness ==
    /\ signalCount = 1
    /\ calls = {}
    /\ vectorError =
          <<"A", "P", "I", " ", "e", "r", "r", "o", "r", ":", " ", "5", "0", "0">>
    /\ kgError = TransportMessage
    /\ vectorResponse = NullResponse
    /\ kgResponse = NullResponse

\* C14.  A 2xx answer whose body is not JSON, or whose JSON lacks the
\* result sequences of the side's payload type, never puts the side in
\* Success: a side in Success holds a payload with its result sequences.
C14_FormatErrorIsFailure ==
    /\ VectorOutcome.kind = "Success" => VectorOutcome.payload.hasResults
    /\ KGOutcome.kind = "Success" => KGOutcome.payload.hasResults

\* C15.  When an exception is raised while the "newQuery" event is emitted
\* or handled, handleSubmit reports a notification, leaves the field as it
\* was, and lets no exception escape.
C15_FaultIsCaught ==
    [][Len(faults') > Len(faults) =>
          /\ Len(toasts') = Len(toasts) + 1
          /\ chatQuery' = chatQuery
          /\ ~faults'[Len(faults')].escaped]_vars

\* C16.  No retry: the listener of a "newQuery" event starts exactly one
\* vector call and exactly one graph call, both for the query of the event;
\* no other step starts a call, so a side that has failed gets no further
\* call for its query.
C16_NoRetry ==
    [][/\ DispatchStep =>
             /\ calls \subseteq calls'
             /\ Cardinality({c \in calls' \ calls : c.side = "vector"}) = 1
             /\ Cardinality({c \in calls' \ calls : c.side = "kg"}) = 1
             /\ \A c \in calls' \ calls :
                   c.query = lastSignal' /\ c.gen = signalCount'
       /\ ~DispatchStep => calls' \subseteq calls]_vars

\* After time has passed the vector call of the one query submitted was
\* answered with status 500; only the graph call is outstanding.
C16_Witness ==
    /\ signalCount = 1
    /\ clock > 1
    /\ VectorOutcome.kind = "Failure"
    /\ vectorError = ApiError(500)
    /\ Cardinality(calls) = 1
    /\ \A c \in calls : c.side = "kg" /\ c.query = query /\ c.startTime = 1

C18_ProxyContract ==
    \A i \in 1..Len(invocations) :
       LET v == invocations[i]
           response == v.responses[1]
       IN
       /\ v.backendCalls <= 1
       /\ Len(v.responses) = (IF v.pc = "done" THEN 1 ELSE 0)
       /\ v.pc = "done" =>
             IF v.query = NullString \/ v.query = <<>>
             THEN response.status = 400 /\ v.backendCalls = 0
             ELSE IF /\ v.backend.fetch = "fulfilled"
                     /\ ResponseOk(v.backend.status)
                     /\ v.backend.text = "fulfilled"
                     /\ JSONParse(v.backend.body).ok
             THEN /\ response.status = 200
                  /\ response.body = JSONParse(v.backend.body).value
                  /\ response.cacheControl = "no-store, max-age=0"
                  /\ v.backendCalls = 1
             ELSE /\ response.status = 500
                  /\ "error" \in DOMAIN response.body
                  /\ v.backendCalls = 1

\* C19.  Completion-order independence for one submitted query.  Whatever
\* the other side has done so far, a call that settles gives its own side
\* the outcome of its settlement and leaves the other side's payload and
\* message as they are; and once both calls have settled the loading flag
\* is false and neither side is Pending.  The final outcomes and the final
\* loading flag are therefore the same in both orders of completion.
C19_OrderIndependent ==
    /\ [][signalCount = 1 =>
            \A c \in calls \ calls' : \A r \in Settlements(c) :
               /\ (c.side = "vector" /\ fetchVectorResponse(c, r)) =>
                     /\ VectorOutcome' = OutcomeOf(r)
                     /\ UNCHANGED <<kgResponse, kgError>>
               /\ (c.side = "kg" /\ fetchKGResponse(c, r)) =>
                     /\ KGOutcome' = OutcomeOf(r)
                     /\ UNCHANGED <<vectorResponse, vectorError>>]_vars
    /\ []((signalCount = 1 /\ calls = {}) =>
            /\ ~isLoading
            /\ VectorOutcome.kind # "Pending"
            /\ KGOutcome.kind # "Pending")

\* The graph call was answered first, the vector call later (its elapsed
\* time is the larger one): both sides are in Success and loading is over.
C19_Witness ==
    /\ signalCount = 1
    /\ calls = {}
    /\ ~isLoading
    /\ VectorOutcome.kind = "Success"
    /\ KGOutcome.kind = "Success"
    /\ kgTime = 0
    /\ vectorTime = 1

\* C20.  Liveness: when every call that was started settles and the
\* submissions come to an end, the session reaches and keeps a state in
\* which no call is outstanding, the loading flag and the loading indicator
\* are off, and (once a query was submitted) neither side is Pending.
C20_EventuallyQuiet ==
    <>[](/\ calls = {}
         /\ ~isLoading
         /\ ~LoadingIndicator
         /\ signalCount > 0 =>
               /\ VectorOutcome.kind # "Pending"
               /\ KGOutcome.kind # "Pending")

\* Two queries were submitted, all four calls have settled, the graph side
\* with a failure: loading is over and no side is Pending.
C20_Witness ==
    /\ signalCount = 2
    /\ calls = {}
    /\ ~isLoading
    /\ ~LoadingIndicator
    /\ KGOutcome.kind = "Failure"
    /\ VectorOutcome.kind = "Success"

\* C21.  The listener of a "newQuery" event resets the session and starts
\* both calls in one turn: the step that resets the session is the step that
\* adds the vector call and the graph call, both with the text of the event
\* as their only argument and with the same start time, and no call settles
\* in it.  The graph call is outstanding from that step on, whatever
\* becomes of the vector call.
C21_BothCallsInOneTurn ==
    [][DispatchStep =>
          /\ query' = lastSignal'
          /\ isLoading'
          /\ calls \subseteq calls'
          /\ clock' = clock
          /\ \E v, k \in calls' \ calls :
                /\ v.side = "vector" /\ k.side = "kg"
                /\ v.query = lastSignal' /\ k.query = lastSignal'
                /\ v.startTime = clock /\ k.startTime = clock
                /\ calls' \ calls = {v, k}]_vars

\* Time has passed and the graph call has settled while the vector call of
\* the same event, started at the same time, is still outstanding.
C21_Witness ==
    /\ signalCount = 1
    /\ clock = 2
    /\ KGOutcome.kind = "Success"
    /\ kgTime = 1
    /\ VectorOutcome.kind = "Pending"
    /\ calls = {[side |-> "vector", query |-> query, startTime |-> 1, gen |-> 1]}

\* C22.  A step "older" happens only on an empty field: the ArrowUp key and
\* the "Previous query" button, used while the field holds text, move no
\* cursor and leave the text as it is.
C22_OlderOnlyOnEmptyField ==
    [][(lastEvent' \in {"ArrowUp", "previous"} /\ chatQuery # <<>>) =>
          UNCHANGED <<chatQuery, historyIndex, queryHistory>>]_vars

\* C23.  Typing and clicking a chip change the field only: the cursor, the
\* history, the session and the calls stay as they are, and the field
\* holds the typed text or the text of the chip; and the cursor goes from an
\* item back to none (-1) only in a step "newer" or in a submission of a
\* text with a non-empty trim.
C23_TypingKeepsCursor ==
    /\ [][lastEvent' \in {"onChange", "chip"} =>
            /\ UNCHANGED <<historyIndex, queryHistory, sessionVars, calls,
                           signalVars>>
            /\ lastEvent' = "onChange" => chatQuery' \in InputTexts
            /\ lastEvent' = "chip" =>
                  \E i \in 1..Len(Slice0(queryHistory, ChipCount)) :
                     chatQuery' = queryHistory[i].text]_vars
    /\ [][(historyIndex # 0 - 1 /\ historyIndex' = 0 - 1) =>
            \/ NewerStep
            \/ SubmitStep /\ Trim(chatQuery) # <<>>]_vars

\* With the cursor on the second item of the history, the user has typed
\* over the recalled text: the cursor is still on the second item.
C23_Witness ==
    /\ lastEvent = "onChange"
    /\ historyIndex = 1
    /\ Len(queryHistory) = 2
    /\ chatQuery = <<" ", "a", " ">>
    /\ queryHistory[2].text # chatQuery

\* C24.  The items of the history have pairwise distinct ids and non-empty
\* texts, also when two submissions are made at the same reading of the
\* clock; and an item that stays in the history keeps its id, its text and
\* its timestamp.
C24_DistinctIds ==
    /\ [](\A i \in 1..Len(queryHistory) :
            /\ queryHistory[i].text # <<>>
            /\ \A j \in 1..Len(queryHistory) :
                  i # j => queryHistory[i].id # queryHistory[j].id)
    /\ [][\/ queryHistory' = queryHistory
          \/ Tail(queryHistory')
                = SubSeq(queryHistory, 1, Len(queryHistory') - 1)]_vars

\* C25.  The cursor is none (-1) or an index of the history
\* (0 <= cursor <= length - 1), also after the oldest item was dropped at
\* the cap of 20.
C25_CursorInRange ==
    /\ historyIndex >= 0 - 1
    /\ historyIndex <= Len(queryHistory) - 1

\* After a submission on a full history, which dropped the oldest item, the
\* cursor was stepped to the last of the 20 items.
C25_Witness ==
    /\ signalCount = 2
    /\ Len(queryHistory) = HistoryKeep + 1
    /\ historyIndex = HistoryKeep
    /\ chatQuery = queryHistory[HistoryKeep + 1].text

\* C26.  A step "newer" with the cursor at none (-1) changes nothing: after
\* ArrowDown the field, the cursor and the history are as they were, with
\* an empty history and with a non-empty one.
C26_NewerAtNoneIsNoOp ==
    [][(lastEvent' = "ArrowDown" /\ historyIndex = 0 - 1) =>
          UNCHANGED <<chatQuery, historyIndex, queryHistory>>]_vars

====
